---- MODULE Spec2Model ----
(***************************************************************************)
(* Model of the three SAT procedures of the repository:                    *)
(*   CDCL.py        cdcl_solve and its helpers (the driver state machine), *)
(*                  Formula.__init__ on literal lists, parse_dimacs_cnf    *)
(*   DPLL.py        dpll (recursive case splitting)                        *)
(*   resolution.py  pl_resolution (saturation by pairwise resolution)      *)
(* A literal Literal(variable, negation) is written as the non-zero        *)
(* integer +variable / -variable (the DIMACS convention the parsers use).  *)
(* A Clause of the clause store is the set of its literals: the store only *)
(* ever holds clauses built by list(set(...)), whose order is the          *)
(* iteration order of a Python set.  A clause reference (antecedent,       *)
(* conflict clause) is the clause's 1-based position in the store.         *)
(***************************************************************************)
EXTENDS Integers, Sequences, FiniteSets, TLC

\* ------------------------------------------------------------------ bounds
NumVars == 3
MaxClauses == 3
MaxWidth == 3

VARIABLES
    clauses,        \* formula.clauses: the clause store (original + learned)
    variables,      \* formula.__variables
    nOriginal,      \* number of clauses the formula was constructed with
    assignments,    \* the Assignments dict: variable -> Assignment
    dl,             \* assignments.dl, the current decision level
    pc,             \* position of cdcl_solve / conflict_analysis
    conflict,       \* cdcl_solve's `clause`: the clause unit_propagation returned
    clause,         \* conflict_analysis's working `clause`
    b,              \* backjump level returned by conflict_analysis
    learnt_clause,  \* clause returned by conflict_analysis
    dpll_clauses,   \* DPLL.py: the clause list handed to dpll
    dpll_pc,        \* DPLL.py: "idle", "call" (before dpll) or "done"
    dpll_result,    \* DPLL.py: what dpll returned
    res_clauses,    \* resolution.py: the clause list handed to pl_resolution
    res_pc,         \* resolution.py: "idle", "call" or "done"
    res_result,     \* resolution.py: what pl_resolution returned
    ctor_literals,  \* Formula.__init__: a literal list handed to the constructor
    ctor_other,     \* Formula.__init__: a second literal list, resolved against
    ctor_trail,     \* the Assignments the constructed clauses are classified under
    ctor_pc,        \* "idle", "call" (before Formula(...)) or "done"
    ctor_result,    \* classifications and resolvents of the constructed clauses
    parse_tokens,   \* parse_dimacs_cnf: the lines of `content`, as token lists
    parse_pc,       \* "idle", "call" or "done"
    parse_formula   \* the clauses of the Formula parse_dimacs_cnf returned

cdclVars == <<clauses, variables, nOriginal, assignments, dl, pc, conflict, clause,
              b, learnt_clause>>
dpllVars == <<dpll_clauses, dpll_pc, dpll_result>>
resVars == <<res_clauses, res_pc, res_result>>
ctorVars == <<ctor_literals, ctor_other, ctor_trail, ctor_pc, ctor_result>>
parseVars == <<parse_tokens, parse_pc, parse_formula>>
vars == <<cdclVars, dpllVars, resVars, ctorVars, parseVars>>

\* ------------------------------------------------------------ data model
Abs(x) == IF x < 0 THEN -x ELSE x

Literal(variable, negation) == IF negation THEN -variable ELSE variable
Variable(lit) == Abs(lit)
Negation(lit) == lit < 0
neg(lit) == Literal(Variable(lit), ~Negation(lit))

Range(s) == {s[i] : i \in DOMAIN s}

\* Optional[Clause] = None
NoClause == 0

\* the None that conflict_analysis returns in place of a learned clause: a
\* value apart from every clause (0 is not a literal)
NoLearntClause == {0}

\* Formula.__init__: every clause becomes list(set(clause)); the variable
\* set is collected from the clauses given.
Formula(cs) ==
    [clauses   |-> [i \in DOMAIN cs |-> Range(cs[i])],
     variables |-> UNION {{Variable(lit) : lit \in Range(cs[i])} : i \in DOMAIN cs}]

Assignment(value, antecedent, level) ==
    [value |-> value, antecedent |-> antecedent, dl |-> level]

\* Assignments.__init__
EmptyAssignments == [v \in {} |-> Assignment(FALSE, NoClause, 0)]

\* Assignments.value that forgets the polarity of the literal
value_ignores_negation(asg, lit) == asg[Variable(lit)].value

\* Assignments.value
value(asg, lit) ==
    IF Negation(lit) THEN ~asg[Variable(lit)].value ELSE asg[Variable(lit)].value

\* Assignments.assign that drops the antecedent
assign_without_antecedent(asg, level, variable, val, antecedent) ==
    [v \in DOMAIN asg \cup {variable} |->
        IF v = variable THEN Assignment(val, NoClause, level) ELSE asg[v]]

\* Assignments.assign
assign(asg, level, variable, val, antecedent) ==
    [v \in DOMAIN asg \cup {variable} |->
        IF v = variable THEN Assignment(val, antecedent, level) ELSE asg[v]]

\* Assignments.satisfy
satisfy(asg, cls) ==
    \A i \in DOMAIN cls : TRUE \in {value(asg, lit) : lit \in cls[i]}

\* clause_status that needs a false literal before it reports 'unsatisfied'
clause_status_needs_false(c, asg) ==
    LET trues  == {lit \in c : Variable(lit) \in DOMAIN asg /\ value(asg, lit)}
        falses == {lit \in c : Variable(lit) \in DOMAIN asg /\ ~value(asg, lit)}
    IN  IF trues # {} THEN "satisfied"
        ELSE IF falses # {} /\ Cardinality(falses) = Cardinality(c) THEN "unsatisfied"
        ELSE IF Cardinality(falses) = Cardinality(c) - 1 THEN "unit"
        ELSE "unresolved"

\* ---------------------------------------------------------- clause_status
clause_status(c, asg) ==
    LET trues  == {lit \in c : Variable(lit) \in DOMAIN asg /\ value(asg, lit)}
        falses == {lit \in c : Variable(lit) \in DOMAIN asg /\ ~value(asg, lit)}
    IN  IF trues # {} THEN "satisfied"
        ELSE IF Cardinality(falses) = Cardinality(c) THEN "unsatisfied"
        ELSE IF Cardinality(falses) = Cardinality(c) - 1 THEN "unit"
        ELSE "unresolved"

\* unit_propagation that stops after a single pass over the clauses
RECURSIVE up_scan_single_pass(_, _, _, _, _)
up_scan_single_pass(cls, asg, level, i, finish) ==
    IF i > Len(cls)
    THEN [reason |-> "unresolved", clause |-> NoClause, assignments |-> asg]
    ELSE LET status == clause_status(cls[i], asg) IN
         IF status \in {"unresolved", "satisfied"}
         THEN up_scan_single_pass(cls, asg, level, i + 1, finish)
         ELSE IF status = "unit"
         THEN LET literal == CHOOSE lit \in cls[i] : Variable(lit) \notin DOMAIN asg
              IN  up_scan_single_pass(cls,
                          assign(asg, level, Variable(literal), ~Negation(literal), i),
                          level, i + 1, FALSE)
         ELSE [reason |-> "conflict", clause |-> i, assignments |-> asg]

\* ------------------------------------------------------- unit_propagation
\* One step of the scan: clause i of the current pass, `finish` as in the code.
RECURSIVE up_scan(_, _, _, _, _)
up_scan(cls, asg, level, i, finish) ==
    IF i > Len(cls)
    THEN IF finish
         THEN [reason |-> "unresolved", clause |-> NoClause, assignments |-> asg]
         ELSE up_scan(cls, asg, level, 1, TRUE)
    ELSE LET status == clause_status(cls[i], asg) IN
         IF status \in {"unresolved", "satisfied"}
         THEN up_scan(cls, asg, level, i + 1, finish)
         ELSE IF status = "unit"
         THEN LET literal == CHOOSE lit \in cls[i] : Variable(lit) \notin DOMAIN asg
              IN  up_scan(cls,
                          assign(asg, level, Variable(literal), ~Negation(literal), i),
                          level, i + 1, FALSE)
         ELSE [reason |-> "conflict", clause |-> i, assignments |-> asg]

unit_propagation(cls, asg, level) == up_scan(cls, asg, level, 1, TRUE)

\* resolve that keeps only the first clause's literals
resolve_drops_antecedent(a, c, x) == a \ {Literal(x, TRUE), Literal(x, FALSE)}

\* ----------------------------------------------------------------- resolve
resolve(a, c, x) == (a \cup c) \ {Literal(x, TRUE), Literal(x, FALSE)}

\* ------------------------------------------------------ conflict_analysis
\* level tests that are off by one
cannot_backtrack_at_one(level) == level <= 1
cannot_backtrack_never(level) == level < 0

\* if assignments.dl == 0: return (-1, None)
cannot_backtrack(level) == level = 0

\* literals at or below the current level instead of at it
current_literals_upto(c, asg, level) == {lit \in c : asg[Variable(lit)].dl <= level}

\* literals = [lit for lit in clause if assignments[lit.variable].dl == assignments.dl]
current_literals(c, asg, level) == {lit \in c : asg[Variable(lit)].dl = level}

\* sorted(set(...)) of the levels of a clause, and the returned level
decision_levels(c, asg) == {asg[Variable(lit)].dl : lit \in c}

Max(S) == CHOOSE x \in S : \A y \in S : y <= x

\* decision_levels[-1] instead of decision_levels[-2]
backjump_level_highest(c, asg) ==
    LET levels == decision_levels(c, asg) IN
    IF Cardinality(levels) <= 1 THEN 0 ELSE Max(levels)

backjump_level(c, asg) ==
    LET levels == decision_levels(c, asg) IN
    IF Cardinality(levels) <= 1 THEN 0 ELSE Max(levels \ {Max(levels)})

\* backtrack with dl >= b instead of dl > b
backtrack_inclusive(asg, level) ==
    [v \in {w \in DOMAIN asg : ~(asg[w].dl >= level)} |-> asg[v]]

\* backtrack that removes only the decisions above the level
backtrack_decisions_only(asg, level) ==
    [v \in {w \in DOMAIN asg : ~(asg[w].dl > level /\ asg[w].antecedent = NoClause)}
        |-> asg[v]]

\* backtrack that removes nothing
backtrack_keeps_all(asg, level) == asg

\* ---------------------------------------------------------------- backtrack
backtrack(asg, level) ==
    [v \in {w \in DOMAIN asg : ~(asg[w].dl > level)} |-> asg[v]]

\* all_variables_assigned that also asks for a non-empty trail
all_variables_assigned_nonempty(vs, asg) ==
    DOMAIN asg # {} /\ Cardinality(vs) = Cardinality(DOMAIN asg)

\* --------------------------------------------------- all_variables_assigned
all_variables_assigned(vs, asg) == Cardinality(vs) = Cardinality(DOMAIN asg)

\* pick_branching_variable that chooses among all the variables
unassigned_vars_all(vs, asg) == vs

\* -------------------------------------------------- pick_branching_variable
unassigned_vars(vs, asg) == {v \in vs : v \notin DOMAIN asg}

\* add_learnt_clause that overwrites the conflict clause's slot, the last clause
add_learnt_clause_in_place(cls, c) == [cls EXCEPT ![Len(cls)] = c]

\* ---------------------------------------------------------- add_learnt_clause
add_learnt_clause(cls, c) == Append(cls, c)

\* ------------------------------------------------------------------ inputs
Lits(n) == {Literal(v, negation) : v \in 1..n, negation \in BOOLEAN}

\* the literal set S as an ascending list
RECURSIVE SortedSeq(_)
SortedSeq(S) ==
    IF S = {} THEN <<>>
    ELSE LET m == CHOOSE x \in S : \A y \in S : x <= y
         IN  <<m>> \o SortedSeq(S \ {m})

InputClauses(n) ==
    {SortedSeq(S) : S \in {T \in SUBSET Lits(n) : Cardinality(T) <= MaxWidth}}

\* up to MaxClauses clauses over NumVars variables, and one clause more over
\* one variable fewer
AllFormulas ==
    UNION {[1..n -> InputClauses(NumVars)] : n \in 0..MaxClauses}
    \cup [1..(MaxClauses + 1) -> InputClauses(NumVars - 1)]

\* cdcl_solve treats variables and polarities alike, so every formula behaves
\* as one whose first clause is one of these does, up to renaming variables
\* and flipping polarities
CanonicalFirst ==
    {<<>>, <<1>>, <<-1, 1>>, <<1, 2>>, <<-1, 1, 2>>, <<1, 2, 3>>}

InputFormulas == {cs \in AllFormulas : cs # <<>> => cs[1] \in CanonicalFirst}

\* ------------------------------------------------------------- cdcl_solve
\* the state of cdcl_solve(Formula(cs)) on entry
CdclInit(cs) ==
    /\ clauses = Formula(cs).clauses
    /\ variables = Formula(cs).variables
    /\ nOriginal = Len(cs)
    /\ assignments = EmptyAssignments
    /\ dl = 0
    /\ pc = "start"
    /\ conflict = NoClause
    /\ clause = {}
    /\ b = 0
    /\ learnt_clause = NoLearntClause

\* cdcl_solve is not running
CdclIdle ==
    /\ clauses = <<>>
    /\ variables = {}
    /\ nOriginal = 0
    /\ assignments = EmptyAssignments
    /\ dl = 0
    /\ pc = "idle"
    /\ conflict = NoClause
    /\ clause = {}
    /\ b = 0
    /\ learnt_clause = NoLearntClause

DpllIdle == dpll_clauses = <<>> /\ dpll_pc = "idle" /\ dpll_result = FALSE
ResIdle == res_clauses = <<>> /\ res_pc = "idle" /\ res_result = FALSE
NoResult == [status_repeats |-> "", status_plain |-> "", status_store |-> "",
             resolvent_repeats |-> {}, resolvent_plain |-> {}]
CtorIdle ==
    /\ ctor_literals = <<>>
    /\ ctor_other = <<>>
    /\ ctor_trail = EmptyAssignments
    /\ ctor_pc = "idle"
    /\ ctor_result = NoResult
ParseIdle == parse_tokens = <<>> /\ parse_pc = "idle" /\ parse_formula = <<>>
OthersIdle == DpllIdle /\ ResIdle /\ CtorIdle /\ ParseIdle

Init == \E cs \in InputFormulas : CdclInit(cs) /\ OthersIdle

\* lines 172-175: the initial unit propagation
InitialPropagate ==
    /\ pc = "start"
    /\ LET r == unit_propagation(clauses, assignments, dl) IN
        /\ assignments' = r.assignments
        /\ conflict' = r.clause
        /\ pc' = IF r.reason = "conflict" THEN "unsat" ELSE "loop"
    /\ UNCHANGED <<clauses, variables, nOriginal, dl, clause, b, learnt_clause>>
    /\ UNCHANGED <<dpllVars, resVars, ctorVars, parseVars>>

\* line 177 (loop exit) and line 194
ReturnAssignments ==
    /\ pc = "loop"
    /\ all_variables_assigned(variables, assignments)
    /\ pc' = "sat"
    /\ UNCHANGED <<clauses, variables, nOriginal, assignments, dl, conflict, clause,
                   b, learnt_clause>>
    /\ UNCHANGED <<dpllVars, resVars, ctorVars, parseVars>>

\* lines 177-180: branch on an unassigned variable
Decide ==
    /\ pc = "loop"
    /\ ~all_variables_assigned(variables, assignments)
    /\ IF unassigned_vars(variables, assignments) = {}
       THEN /\ pc' = "error"
            /\ UNCHANGED <<assignments, dl>>
       ELSE \E var \in unassigned_vars(variables, assignments), val \in BOOLEAN :
            /\ dl' = dl + 1
            /\ assignments' = assign(assignments, dl + 1, var, val, NoClause)
            /\ pc' = "propagate"
    /\ UNCHANGED <<clauses, variables, nOriginal, conflict, clause, b, learnt_clause>>
    /\ UNCHANGED <<dpllVars, resVars, ctorVars, parseVars>>

\* lines 183-185
Propagate ==
    /\ pc = "propagate"
    /\ LET r == unit_propagation(clauses, assignments, dl) IN
        /\ assignments' = r.assignments
        /\ conflict' = r.clause
        /\ pc' = IF r.reason = "conflict" THEN "analyze" ELSE "loop"
    /\ UNCHANGED <<clauses, variables, nOriginal, dl, clause, b, learnt_clause>>
    /\ UNCHANGED <<dpllVars, resVars, ctorVars, parseVars>>

\* lines 134-138: entry of conflict_analysis
AnalyzeEnter ==
    /\ pc = "analyze"
    /\ IF cannot_backtrack(dl)
       THEN /\ pc' = "analyzed"
            /\ b' = -1
            /\ learnt_clause' = NoLearntClause
            /\ UNCHANGED clause
       ELSE /\ clause' = clauses[conflict]
            /\ pc' = "resolve"
            /\ UNCHANGED <<b, learnt_clause>>
    /\ UNCHANGED <<clauses, variables, nOriginal, assignments, dl, conflict>>
    /\ UNCHANGED <<dpllVars, resVars, ctorVars, parseVars>>

\* lines 139-144: one iteration of the resolution loop
ResolveStep ==
    /\ pc = "resolve"
    /\ Cardinality(current_literals(clause, assignments, dl)) # 1
    /\ LET candidates == {lit \in current_literals(clause, assignments, dl) :
                            assignments[Variable(lit)].antecedent # NoClause}
       IN  IF candidates = {}
           THEN /\ pc' = "error"          \* next() raises StopIteration
                /\ UNCHANGED clause
           ELSE \E literal \in candidates :
                /\ clause' = resolve(clause,
                                     clauses[assignments[Variable(literal)].antecedent],
                                     Variable(literal))
                /\ pc' = "resolve"
    /\ UNCHANGED <<clauses, variables, nOriginal, assignments, dl, conflict, b,
                   learnt_clause>>
    /\ UNCHANGED <<dpllVars, resVars, ctorVars, parseVars>>

\* lines 146-147: conflict_analysis returns (level, clause)
AnalyzeReturn ==
    /\ pc = "resolve"
    /\ Cardinality(current_literals(clause, assignments, dl)) = 1
    /\ pc' = "analyzed"
    /\ b' = backjump_level(clause, assignments)
    /\ learnt_clause' = clause
    /\ UNCHANGED <<clauses, variables, nOriginal, assignments, dl, conflict, clause>>
    /\ UNCHANGED <<dpllVars, resVars, ctorVars, parseVars>>

\* lines 188-189
ReturnUnsat ==
    /\ pc = "analyzed"
    /\ b < 0
    /\ pc' = "unsat"
    /\ UNCHANGED <<clauses, variables, nOriginal, assignments, dl, conflict, clause,
                   b, learnt_clause>>
    /\ UNCHANGED <<dpllVars, resVars, ctorVars, parseVars>>

\* lines 190-192
Backjump ==
    /\ pc = "analyzed"
    /\ ~(b < 0)
    /\ clauses' = add_learnt_clause(clauses, learnt_clause)
    /\ assignments' = backtrack(assignments, b)
    /\ dl' = b
    /\ pc' = "propagate"
    /\ UNCHANGED <<variables, nOriginal, conflict, clause, b, learnt_clause>>
    /\ UNCHANGED <<dpllVars, resVars, ctorVars, parseVars>>

Next ==
    \/ InitialPropagate
    \/ ReturnAssignments
    \/ Decide
    \/ Propagate
    \/ AnalyzeEnter
    \/ ResolveStep
    \/ AnalyzeReturn
    \/ ReturnUnsat
    \/ Backjump

Spec == Init /\ [][Next]_vars

\* the formulas without an empty clause and without a clause holding a variable
\* in both polarities (neither is ever an antecedent or resolved on)
LiveFormulas ==
    {cs \in InputFormulas :
        \A i \in DOMAIN cs :
            cs[i] # <<>> /\ \A j \in DOMAIN cs[i] : neg(cs[i][j]) \notin Range(cs[i])}

InitLive == \E cs \in LiveFormulas : CdclInit(cs) /\ OthersIdle

\* cdcl_solve is one uninterrupted computation: a step that can be taken is taken
LiveSpec == InitLive /\ [][Next]_vars /\ WF_vars(Next)

\* ===================================================================== DPLL.py
Min(S) == CHOOSE x \in S : \A y \in S : x <= y

\* dpll.simplify (lines 23-33)
RECURSIVE simplify(_, _, _)
simplify(cls, var, val) ==
    IF cls = <<>> THEN <<>>
    ELSE LET c == Head(cls)
             rest == simplify(Tail(cls), var, val)
             new_clause == SelectSeq(c, LAMBDA l : l # var /\ l # -var)
         IN  IF (val /\ var \in Range(c)) \/ (~val /\ -var \in Range(c))
             THEN rest
             ELSE IF new_clause # <<>> THEN <<new_clause>> \o rest ELSE rest

\* dpll.unit_propagate (lines 3-20); conflict = TRUE stands for (None, None)
RECURSIVE unit_propagate(_, _)
unit_propagate(cls, assignment) ==
    LET units == {i \in DOMAIN cls : Len(cls[i]) = 1} IN
    IF units = {}
    THEN [conflict |-> FALSE, clauses |-> cls, assignment |-> assignment]
    ELSE LET lit == cls[Min(units)][1]
             var == Abs(lit)
             val == lit > 0
         IN  IF var \in DOMAIN assignment
             THEN IF assignment[var] # val
                  THEN [conflict |-> TRUE, clauses |-> <<>>, assignment |-> assignment]
                  ELSE [conflict |-> FALSE, clauses |-> cls, assignment |-> assignment]
             ELSE unit_propagate(simplify(cls, var, val),
                                 [v \in DOMAIN assignment \cup {var} |->
                                     IF v = var THEN val ELSE assignment[v]])

\* lines 43-46: the first literal, in clause order, whose variable is unassigned
first_unassigned(cls, assignment) ==
    LET cands == UNION {{<<i, j>> : j \in {k \in DOMAIN cls[i] :
                                            Abs(cls[i][k]) \notin DOMAIN assignment}} :
                        i \in DOMAIN cls}
    IN  IF cands = {} THEN 0
        ELSE LET p == CHOOSE q \in cands : \A r \in cands :
                        q[1] < r[1] \/ (q[1] = r[1] /\ q[2] <= r[2])
             IN  Abs(cls[p[1]][p[2]])

\* dpll (lines 1-54)
RECURSIVE dpll(_, _)
dpll(cls, assignment) ==
    LET up == unit_propagate(cls, assignment) IN
    IF up.conflict THEN FALSE
    ELSE IF up.clauses = <<>> THEN TRUE
    ELSE LET var == first_unassigned(up.clauses, up.assignment)
             with(val) == [v \in DOMAIN up.assignment \cup {var} |->
                              IF v = var THEN val ELSE up.assignment[v]]
         IN  IF var = 0 THEN TRUE
             ELSE \/ dpll(simplify(up.clauses, var, TRUE), with(TRUE))
                  \/ dpll(simplify(up.clauses, var, FALSE), with(FALSE))

\* the variables of a clause list, and its clauses as literal sets
VarsOf(cs) == UNION {{Abs(l) : l \in Range(cs[i])} : i \in DOMAIN cs}
LitSets(cs) == [i \in DOMAIN cs |-> Range(cs[i])]

\* the clause lists handed to dpll and to pl_resolution
AltFormulas == UNION {[1..n -> InputClauses(NumVars - 1)] : n \in 0..MaxClauses}

InitDPLL ==
    /\ CdclIdle /\ ResIdle /\ CtorIdle /\ ParseIdle
    /\ dpll_clauses \in AltFormulas
    /\ dpll_pc = "call"
    /\ dpll_result = FALSE

\* DPLL.py line 88: result = dpll(clauses)
CallDpll ==
    /\ dpll_pc = "call"
    /\ dpll_result' = dpll(dpll_clauses, [v \in {} |-> FALSE])
    /\ dpll_pc' = "done"
    /\ UNCHANGED <<dpll_clauses, cdclVars, resVars, ctorVars, parseVars>>

SpecDPLL == InitDPLL /\ [][CallDpll]_vars

\* =============================================================== resolution.py
\* resolve (lines 5-11)
pl_resolve(ci, cj) == {(ci \cup cj) \ {lit, -lit} : lit \in {l \in ci : -l \in cj}}

\* the while loop of pl_resolution (lines 16-26), one pass per call
RECURSIVE pl_resolution_loop(_, _)
pl_resolution_loop(cls, new) ==
    LET pairs == {p \in cls \X cls : p[1] # p[2]}
        resolvents == UNION {pl_resolve(p[1], p[2]) : p \in pairs}
    IN
        IF {} \in resolvents THEN TRUE
        ELSE LET new2 == new \cup resolvents IN
             IF new2 \subseteq cls THEN FALSE
             ELSE pl_resolution_loop(cls \cup new2, new2)

\* pl_resolution (lines 13-26)
pl_resolution(cs) == pl_resolution_loop({Range(cs[i]) : i \in DOMAIN cs}, {})

InitResolution ==
    /\ CdclIdle /\ DpllIdle /\ CtorIdle /\ ParseIdle
    /\ res_clauses \in AltFormulas
    /\ res_pc = "call"
    /\ res_result = FALSE

\* resolution.py line 65: result = pl_resolution(clauses)
CallPlResolution ==
    /\ res_pc = "call"
    /\ res_result' = pl_resolution(res_clauses)
    /\ res_pc' = "done"
    /\ UNCHANGED <<res_clauses, cdclVars, dpllVars, ctorVars, parseVars>>

SpecResolution == InitResolution /\ [][CallPlResolution]_vars

\* ================================================= CDCL.py: clauses as lists
\* Clause.literals is a List[Literal]; these definitions keep the list, with
\* its order and its repeats, where the clause store above keeps the set.
CtorVars == 2
CtorWidth == 3

\* the lists without repeats that hold exactly the elements of S: what
\* list(set(...)) can return, the iteration order of a set being unspecified
ListsOf(S) == {l \in [1..Cardinality(S) -> S] : Range(l) = S}

\* Formula.__init__ that appends Clause(clause) as it was given
formula_clause_as_given(literals) == {literals}

\* Formula.__init__, line 48: Clause(list(set(clause)))
formula_clause(literals) == ListsOf(Range(literals))

\* clause_status (lines 117-126) on the literal list: `values` has one entry
\* per position, and values.count(False) counts positions
clause_status_of_list(literals, asg) ==
    LET trues  == {k \in DOMAIN literals :
                      Variable(literals[k]) \in DOMAIN asg /\ value(asg, literals[k])}
        falses == {k \in DOMAIN literals :
                      Variable(literals[k]) \in DOMAIN asg /\ ~value(asg, literals[k])}
    IN  IF trues # {} THEN "satisfied"
        ELSE IF Cardinality(falses) = Len(literals) THEN "unsatisfied"
        ELSE IF Cardinality(falses) = Len(literals) - 1 THEN "unit"
        ELSE "unresolved"

\* resolve (lines 129-131) on literal lists: set(a.literals + b.literals) - {x, -x}
resolve_of_lists(a, c, x) == Range(a \o c) \ {Literal(x, TRUE), Literal(x, FALSE)}

\* the literal list with every repeat of a literal after its first removed
RECURSIVE without_repeats(_)
without_repeats(literals) ==
    IF literals = <<>> THEN <<>>
    ELSE <<Head(literals)>> \o
         without_repeats(SelectSeq(Tail(literals), LAMBDA l : l # Head(literals)))

LiteralLists(n, w) == UNION {[1..k -> Lits(n)] : k \in 0..w}

Trails(n) ==
    UNION {[S -> {Assignment(val, NoClause, 0) : val \in BOOLEAN}] : S \in SUBSET (1..n)}

InitCtor ==
    /\ ctor_literals \in LiteralLists(CtorVars, CtorWidth)
    /\ ctor_other \in LiteralLists(CtorVars, 1)
    /\ ctor_trail \in Trails(CtorVars)
    /\ ctor_pc = "call"
    /\ ctor_result = NoResult
    /\ CdclIdle /\ DpllIdle /\ ResIdle /\ ParseIdle

\* Formula([ctor_literals, ctor_other]) and Formula([the list without its
\* repeats, ctor_other]) are constructed; the first clause of each is
\* classified under the trail and resolved with the second on a variable x
CallFormula ==
    /\ ctor_pc = "call"
    /\ \E withRepeats \in formula_clause(ctor_literals),
          plain \in formula_clause(without_repeats(ctor_literals)),
          other \in formula_clause(ctor_other),
          x \in 1..CtorVars :
            ctor_result' =
               [status_repeats |-> clause_status_of_list(withRepeats, ctor_trail),
                status_plain |-> clause_status_of_list(plain, ctor_trail),
                status_store |-> clause_status(Range(withRepeats), ctor_trail),
                resolvent_repeats |-> resolve_of_lists(withRepeats, other, x),
                resolvent_plain |-> resolve_of_lists(plain, other, x)]
    /\ ctor_pc' = "done"
    /\ UNCHANGED <<ctor_literals, ctor_other, ctor_trail, cdclVars, dpllVars,
                   resVars, parseVars>>

SpecFormula == InitCtor /\ [][CallFormula]_vars

\* ================================================ CDCL.py: parse_dimacs_cnf
MaxLines == 2
MaxTokens == 2
MaxLiteral == 2

\* a whitespace-separated token: int(tok) either yields lit or raises ValueError
IntToken(n) == [int |-> TRUE, lit |-> n]
WordToken == [int |-> FALSE, lit |-> 0]

\* a line: whether it starts with "c" or "%", and its tokens
Line(comment, tokens) == [comment |-> comment, tokens |-> tokens]

\* lines 206-215: one token of a line, `cls` being the list `clauses`
parse_token(cls, tok) ==
    IF ~tok.int THEN cls
    ELSE IF tok.lit = 0 THEN Append(cls, <<>>)
    ELSE LET var == Abs(tok.lit)
             negation == tok.lit < 0
         IN  IF cls = <<>> \/ Len(cls[Len(cls)]) = 0
             THEN Append(cls, <<Literal(var, negation)>>)
             ELSE [cls EXCEPT ![Len(cls)] = Append(@, Literal(var, negation))]

\* lines 204-205: for tok in tokens
RECURSIVE parse_line(_, _)
parse_line(cls, tokens) ==
    IF tokens = <<>> THEN cls
    ELSE parse_line(parse_token(cls, Head(tokens)), Tail(tokens))

\* lines 200-203: for line in content.splitlines(), comment and empty lines skipped
RECURSIVE parse_lines(_, _)
parse_lines(cls, lines) ==
    IF lines = <<>> THEN cls
    ELSE IF Len(Head(lines).tokens) = 0 \/ Head(lines).comment
         THEN parse_lines(cls, Tail(lines))
         ELSE parse_lines(parse_line(cls, Head(lines).tokens), Tail(lines))

parse_dimacs_cnf(content) == Formula(parse_lines(<<>>, content))

Tokens == {IntToken(n) : n \in (-MaxLiteral)..MaxLiteral} \cup {WordToken}
Lines ==
    {Line(comment, tokens) :
        comment \in BOOLEAN, tokens \in UNION {[1..k -> Tokens] : k \in 0..MaxTokens}}
Contents == UNION {[1..k -> Lines] : k \in 0..MaxLines}

InitParse ==
    /\ parse_tokens \in Contents
    /\ parse_pc = "call"
    /\ parse_formula = <<>>
    /\ CdclIdle /\ DpllIdle /\ ResIdle /\ CtorIdle

CallParse ==
    /\ parse_pc = "call"
    /\ parse_formula' = parse_dimacs_cnf(parse_tokens).clauses
    /\ parse_pc' = "done"
    /\ UNCHANGED <<parse_tokens, cdclVars, dpllVars, resVars, ctorVars>>

SpecParse == InitParse /\ [][CallParse]_vars

\* ============================================================ logical notions
\* truth of a literal under a total mapping m : variables -> BOOLEAN
LitTrue(m, lit) == IF lit < 0 THEN ~m[-lit] ELSE m[lit]

\* m makes every clause of cls (a sequence of literal collections) true
Models(m, cls) == \A i \in DOMAIN cls : \E lit \in cls[i] : LitTrue(m, lit)

Satisfiable(vs, cls) == \E m \in [vs -> BOOLEAN] : Models(m, cls)

\* the clauses present before the solve started, and the learned ones
Original == SubSeq(clauses, 1, nOriginal)
Learned == {clauses[k] : k \in (nOriginal + 1)..Len(clauses)}

\* the returned Assignments as a mapping variable -> boolean
Returned == [v \in DOMAIN assignments |-> assignments[v].value]

\* ====================================================================== claims

\* C1: whenever cdcl_solve returns an assignment, it gives every variable of
\* the formula a boolean and makes every original clause true.
C1_SatSound ==
    pc = "sat" =>
        /\ DOMAIN assignments = variables
        /\ \A v \in variables : assignments[v].value \in BOOLEAN
        /\ Models(Returned, Original)
        /\ satisfy(assignments, Original)

\* a SAT answer over all NumVars variables reached after a learned clause
C1_Witness ==
    /\ pc = "sat"
    /\ Len(clauses) > nOriginal
    /\ Cardinality(variables) = NumVars
    /\ nOriginal >= 2

\* C2: cdcl_solve returns UNSAT only if no assignment of the formula's
\* variables satisfies all original clauses.
C2_UnsatOnlyIfUnsatisfiable ==
    pc = "unsat" => ~Satisfiable(variables, Original)

\* an UNSAT answer reached through conflict analysis and a learned clause
C2_Witness ==
    /\ pc = "unsat"
    /\ Len(clauses) > nOriginal
    /\ b = -1

\* C3: under every choice of branching variable and value, and of the literal
\* resolved on, cdcl_solve eventually returns SAT or UNSAT.
C3_Termination == <>(pc \in {"sat", "unsat"})

\* a run that ended after handling at least two conflicts above level 0
C3_Witness ==
    /\ pc \in {"sat", "unsat"}
    /\ Len(clauses) >= nOriginal + 2

\* C4: every clause appended to the clause store is implied by the original
\* clauses: every total assignment satisfying them satisfies it too.
C4_LearnedImplied ==
    \A k \in (nOriginal + 1)..Len(clauses) :
        \A m \in [variables -> BOOLEAN] :
            Models(m, Original) => \E lit \in clauses[k] : LitTrue(m, lit)

\* a learned clause of two literals that is none of the original clauses
C4_Witness ==
    \E k \in (nOriginal + 1)..Len(clauses) :
        /\ Cardinality(clauses[k]) >= 2
        /\ \A i \in 1..nOriginal : clauses[i] # clauses[k]

\* C5: dpll returns True exactly when the clause list is satisfiable.
C5_DpllDecides ==
    dpll_pc = "done" =>
        (dpll_result <=> Satisfiable(VarsOf(dpll_clauses), LitSets(dpll_clauses)))

\* C6: pl_resolution returns True exactly when the clause set is satisfiable.
C6_ResolutionDecides ==
    res_pc = "done" =>
        (res_result <=> Satisfiable(VarsOf(res_clauses), LitSets(res_clauses)))

\* the second-highest distinct element of a set of levels, 0 if there is none
SecondHighest(L) ==
    IF \E y \in L : Cardinality({x \in L : x > y}) = 1
    THEN CHOOSE y \in L : Cardinality({x \in L : x > y}) = 1
    ELSE 0

\* C7: when conflict_analysis returns from a call at a level > 0, the level it
\* returns is the second-highest distinct level among the learned clause's
\* literals (0 if they lie on at most one level) and is below the current level.
C7_BackjumpLevel ==
    (pc = "analyzed" /\ dl > 0) =>
        /\ b = SecondHighest({assignments[Variable(lit)].dl : lit \in learnt_clause})
        /\ b < dl

\* a learned clause whose literals lie on two levels above 0
C7_Witness ==
    /\ pc = "analyzed"
    /\ dl > 0
    /\ b > 0
    /\ Cardinality(learnt_clause) >= 2

\* the levels of the literals of the conflict clause unit_propagation returned
ConflictLevels == {assignments[Variable(lit)].dl : lit \in clauses[conflict]}

\* C8 as stated: a conflict clause whose literals all sit at level 0 gives
\* backjump target 0.
C8_LevelZeroConflictTargetsZero ==
    (pc = "analyzed" /\ ConflictLevels = {0}) => b = 0

\* C8 amended: for such a conflict clause the current level is 0 and
\* conflict_analysis returns -1 and no learned clause.
C8_LevelZeroConflictIsTopLevel ==
    (pc = "analyzed" /\ ConflictLevels = {0}) =>
        /\ dl = 0
        /\ b = -1
        /\ learnt_clause = NoLearntClause

\* conflict_analysis has returned for a conflict clause of two level-0 literals
\* after a clause was learned
C8_Witness ==
    /\ pc = "analyzed"
    /\ ConflictLevels = {0}
    /\ Cardinality(clauses[conflict]) >= 2
    /\ Len(clauses) > nOriginal

\* C9: the backjump to level b removes exactly the entries above level b,
\* leaves the others as they were and sets the current level to b.
C9_BackjumpFrame ==
    [][(pc = "analyzed" /\ b >= 0) =>
        /\ DOMAIN assignments' = {v \in DOMAIN assignments : assignments[v].dl <= b}
        /\ \A v \in DOMAIN assignments' : assignments'[v] = assignments[v]
        /\ dl' = b]_vars

\* a backjump about to remove the entries of two decision levels at once
C9_Witness ==
    /\ pc = "analyzed"
    /\ b >= 0
    /\ dl >= b + 2
    /\ \E v, w \in DOMAIN assignments :
            /\ assignments[v].dl > b
            /\ assignments[w].dl > assignments[v].dl

\* C10: after a propagation that ended without conflict, propagating again
\* reports no conflict and changes nothing, and no clause is unit or
\* unsatisfied.
C10_PropagationIdempotent ==
    pc = "loop" =>
        /\ unit_propagation(clauses, assignments, dl) =
              [reason |-> "unresolved", clause |-> NoClause,
               assignments |-> assignments]
        /\ \A i \in DOMAIN clauses :
              clause_status(clauses[i], assignments) \notin {"unit", "unsatisfied"}

\* a saturated trail that holds a chain of two propagated entries
C10_Witness ==
    /\ pc = "loop"
    /\ \E v, w \in DOMAIN assignments :
            /\ v # w
            /\ assignments[v].antecedent # NoClause
            /\ assignments[w].antecedent # NoClause
            /\ Literal(w, assignments[w].value) \in clauses[assignments[v].antecedent]

\* an entry of the trail made by the branching strategy
IsDecision(v) == assignments[v].antecedent = NoClause

\* an entry of the trail made by unit propagation
IsPropagated(v) == assignments[v].antecedent # NoClause

HasEmptyClause == \E i \in 1..nOriginal : clauses[i] = {}

\* C11: a clause without literals is 'unsatisfied' under every trail, and a
\* formula that holds one is reported UNSAT by the initial propagation: the
\* driver never leaves level 0, never branches and never learns a clause.
C11_EmptyClauseUnsat ==
    /\ clause_status({}, assignments) = "unsatisfied"
    /\ HasEmptyClause =>
          /\ pc \in {"start", "unsat"}
          /\ dl = 0
          /\ \A v \in DOMAIN assignments : IsPropagated(v)
          /\ Len(clauses) = nOriginal
          /\ pc = "unsat" =>
                /\ conflict \in 1..nOriginal
                /\ clause_status(clauses[conflict], assignments) = "unsatisfied"

\* UNSAT returned for a formula whose empty clause comes after a unit clause
\* that the initial propagation assigned
C11_Witness ==
    /\ pc = "unsat"
    /\ HasEmptyClause
    /\ clauses[1] # {}
    /\ assignments # EmptyAssignments
    /\ clauses[conflict] = {}

\* C12: on the formula without clauses and without variables cdcl_solve
\* returns the empty assignment (not the UNSAT sentinel): nothing is
\* propagated, no decision is made and the level stays 0.
C12_EmptyFormulaSat ==
    (nOriginal = 0 /\ pc # "idle") =>
        /\ pc \in {"start", "loop", "sat"}
        /\ clauses = <<>>
        /\ variables = {}
        /\ assignments = EmptyAssignments
        /\ dl = 0
        /\ pc = "loop" => all_variables_assigned(variables, assignments)
        /\ pc = "sat" => DOMAIN Returned = {}

\* cdcl_solve has returned for the empty formula
C12_Witness ==
    /\ nOriginal = 0
    /\ pc = "sat"
    /\ DOMAIN assignments = {}

\* C13: a clause constructed from a literal list with repeated literals
\* behaves as the clause constructed from the list without the repeats:
\* both get the same classification under the trail and the same resolvent
\* (and the classification is the one the clause store computes on the set
\* of literals).
C13_RepeatsCollapsed ==
    ctor_pc = "done" =>
        /\ ctor_result.status_repeats = ctor_result.status_plain
        /\ ctor_result.resolvent_repeats = ctor_result.resolvent_plain
        /\ ctor_result.status_repeats = ctor_result.status_store

\* a list with a repeated literal whose clause is unit under the trail: its
\* other literal is false and the repeated one is unassigned
C13_Witness ==
    /\ ctor_pc = "done"
    /\ Len(ctor_literals) > Cardinality(Range(ctor_literals))
    /\ Cardinality(Range(ctor_literals)) = 2
    /\ ctor_result.status_repeats = "unit"
    /\ ctor_result.resolvent_repeats # {}

\* the integers of the token stream: comment lines skipped, words ignored
RECURSIVE IntegerStream(_)
IntegerStream(lines) ==
    IF lines = <<>> THEN <<>>
    ELSE (IF Head(lines).comment THEN <<>>
          ELSE LET ints == SelectSeq(Head(lines).tokens, LAMBDA t : t.int)
               IN  [k \in DOMAIN ints |-> ints[k].lit])
         \o IntegerStream(Tail(lines))

\* the groups of non-zero integers that precede each 0 of the stream, in order
RECURSIVE GroupsBeforeZero(_, _)
GroupsBeforeZero(ints, group) ==
    IF ints = <<>> THEN <<>>
    ELSE IF Head(ints) = 0 THEN <<group>> \o GroupsBeforeZero(Tail(ints), <<>>)
    ELSE GroupsBeforeZero(Tail(ints), Append(group, Head(ints)))

\* the stream ends with a 0 and every 0 is preceded by at least one literal
EveryGroupTerminated(ints) ==
    /\ ints # <<>>
    /\ ints[Len(ints)] = 0
    /\ \A k \in DOMAIN GroupsBeforeZero(ints, <<>>) :
            GroupsBeforeZero(ints, <<>>)[k] # <<>>

\* C14: for a token stream in which every 0 is preceded by at least one
\* literal, the Formula parse_dimacs_cnf returns holds one clause per 0, in
\* order, each with the literals of the group that precedes that 0.
C14_OneClausePerTerminator ==
    (parse_pc = "done" /\ EveryGroupTerminated(IntegerStream(parse_tokens))) =>
        LET groups == GroupsBeforeZero(IntegerStream(parse_tokens), <<>>)
        IN  parse_formula = [k \in DOMAIN groups |-> Range(groups[k])]

\* C15: a clause learned at a level above 0 is asserting.  At the conflict
\* all its literals are false and exactly one was assigned at the conflict's
\* level; right after the driver has appended it and backtracked to the
\* returned level it is 'unit', that one literal being the unassigned one.
C15_LearnedAsserting ==
    [][(pc = "analyzed" /\ b >= 0) =>
          LET atConflictLevel ==
                  {lit \in learnt_clause : assignments[Variable(lit)].dl = dl}
          IN  /\ dl > 0
              /\ \A lit \in learnt_clause :
                    Variable(lit) \in DOMAIN assignments /\ ~value(assignments, lit)
              /\ Cardinality(atConflictLevel) = 1
              /\ dl' = b
              /\ clauses'[Len(clauses')] = learnt_clause
              /\ clause_status(learnt_clause, assignments') = "unit"
              /\ \A lit \in atConflictLevel : Variable(lit) \notin DOMAIN assignments'
              /\ \A lit \in learnt_clause \ atConflictLevel :
                    Variable(lit) \in DOMAIN assignments' /\ ~value(assignments', lit)
      ]_vars

\* the driver has just backtracked to level 0 with a learned clause of two
\* literals: the one below the conflict's level is still false, the other
\* is unassigned again
C15_Witness ==
    /\ pc = "propagate"
    /\ dl = 0
    /\ Len(clauses) > nOriginal
    /\ Cardinality(learnt_clause) >= 2
    /\ clauses[Len(clauses)] = learnt_clause
    /\ clause_status(learnt_clause, assignments) = "unit"

\* C16: conflict analysis never lacks a literal to resolve on.  The working
\* clause of a conflict at a level above 0 always has a literal assigned at
\* the current level, and when it has more than one, one of them is a
\* propagated entry; the conflict clause handed over has one as well.
C16_ResolutionCandidate ==
    /\ pc # "error"
    /\ (pc = "analyze" /\ dl > 0) =>
          \E lit \in clauses[conflict] : assignments[Variable(lit)].dl = dl
    /\ pc = "resolve" =>
          LET atLevel == {lit \in clause : assignments[Variable(lit)].dl = dl}
          IN  /\ dl > 0
              /\ atLevel # {}
              /\ Cardinality(atLevel) > 1 =>
                    \E lit \in atLevel : IsPropagated(Variable(lit))

\* a working clause with two literals of the current level, one the
\* decision of that level and one propagated
C16_Witness ==
    /\ pc = "resolve"
    /\ \E l1, l2 \in clause :
          /\ l1 # l2
          /\ assignments[Variable(l1)].dl = dl
          /\ assignments[Variable(l2)].dl = dl
          /\ IsDecision(Variable(l1))
          /\ IsPropagated(Variable(l2))

\* C17: in every driver state, the antecedent of every propagated entry is a
\* clause of the store that holds a literal of the entry's variable, true
\* under the trail, while each of its other literals is assigned, false and
\* of a level not above the entry's; entries that survive a backjump
\* included.
C17_AntecedentsJustify ==
    \A v \in DOMAIN assignments :
        IsPropagated(v) =>
            /\ assignments[v].antecedent \in DOMAIN clauses
            /\ \E lit \in clauses[assignments[v].antecedent] :
                  /\ Variable(lit) = v
                  /\ value(assignments, lit)
                  /\ \A other \in clauses[assignments[v].antecedent] \ {lit} :
                        /\ Variable(other) \in DOMAIN assignments
                        /\ ~value(assignments, other)
                        /\ assignments[Variable(other)].dl <= assignments[v].dl

\* the driver has just backtracked to level 0 and a propagated entry of
\* level 0 is still on the trail
C17_Witness ==
    /\ pc = "propagate"
    /\ dl = 0
    /\ Len(clauses) > nOriginal
    /\ \E v \in DOMAIN assignments : IsPropagated(v)

\* C18: in every driver state no trail entry lies above the current level,
\* level 0 holds propagated entries only, each level from 1 to the current
\* one holds exactly one decision entry, and so the current level never
\* exceeds the number of variables of the formula.
C18_LevelStructure ==
    /\ \A v \in DOMAIN assignments :
          /\ assignments[v].dl \in 0..dl
          /\ IsDecision(v) => assignments[v].dl >= 1
    /\ \A k \in 1..dl :
          Cardinality({v \in DOMAIN assignments :
                          IsDecision(v) /\ assignments[v].dl = k}) = 1
    /\ dl <= Cardinality(variables)

\* two decision levels above a level 0 that holds a propagated entry
C18_Witness ==
    /\ pc = "loop"
    /\ dl = 2
    /\ \E v \in DOMAIN assignments : assignments[v].dl = 0

\* C19: the clause store only grows by appending.  No step removes or
\* alters a clause already in it; handling a conflict at a level above 0
\* appends exactly one clause, the learned one, which differs from every
\* clause already in the store and mentions only variables of the formula;
\* no other step changes the store.
C19_StoreAppendOnly ==
    [][/\ Len(clauses') >= Len(clauses)
       /\ SubSeq(clauses', 1, Len(clauses)) = clauses
       /\ nOriginal' = nOriginal
       /\ variables' = variables
       /\ IF pc = "analyzed" /\ b >= 0
          THEN /\ clauses' = Append(clauses, learnt_clause)
               /\ \A i \in DOMAIN clauses : clauses[i] # learnt_clause
               /\ {Variable(lit) : lit \in learnt_clause} \subseteq variables
          ELSE clauses' = clauses
      ]_vars

\* a second learned clause has been appended behind the first
C19_Witness ==
    /\ Len(clauses) >= nOriginal + 2
    /\ clauses[Len(clauses)] # clauses[Len(clauses) - 1]
    /\ pc = "propagate"

\* C20: whenever the driver invokes the branching strategy (it is in its
\* loop and does not return), the last propagation ended saturated and
\* without conflict, and some variable of the formula has no trail entry;
\* the step raises the level by one and adds exactly one entry, for one of
\* those variables, as a decision (no antecedent) at the new level.
C20_BranchingStep ==
    [][(pc = "loop" /\ pc' # "sat") =>
          /\ \A i \in DOMAIN clauses :
                clause_status(clauses[i], assignments) \notin {"unit", "unsatisfied"}
          /\ variables \ DOMAIN assignments # {}
          /\ pc' = "propagate"
          /\ dl' = dl + 1
          /\ \E var \in variables \ DOMAIN assignments :
                /\ DOMAIN assignments' = DOMAIN assignments \cup {var}
                /\ assignments'[var].value \in BOOLEAN
                /\ assignments'[var].antecedent = NoClause
                /\ assignments'[var].dl = dl'
                /\ \A w \in DOMAIN assignments : assignments'[w] = assignments[w]
      ]_vars

\* a decision made after a learned clause was added: the level is above the
\* one the last backjump returned to
C20_Witness ==
    /\ pc = "propagate"
    /\ Len(clauses) > nOriginal
    /\ dl > b
    /\ \E v \in DOMAIN assignments : IsDecision(v) /\ assignments[v].dl = dl

====
